---- MODULE Spec2Model ----
(***************************************************************************)
(* Model of src/src/assistente_normas/assistant.py: the RAG assistant's    *)
(* startup sequence (main), the persisted vector store handling            *)
(* (create_or_load_vectorstore), the answer post-processing (ask_question) *)
(* and the interactive loop.                                               *)
(*                                                                         *)
(* Text is a sequence of tokens.  A token is one character, or one of the  *)
(* program's fixed literals that never overlaps another token (the         *)
(* citation opener "(Fonte: ", the "not found" sentence, ...).  Literals   *)
(* are written without diacritics.                                         *)
(***************************************************************************)
EXTENDS Integers, Sequences, FiniteSets, TLC

\* ---------------------------------------------------------------- bounds
MaxPieces == 2      \* pieces an LLM answer is assembled from
MaxDocs   == 2      \* source documents returned by the retriever
MaxFiles  == 2      \* files in the documents directory
MaxChunks == 2      \* chunks passed to a direct create_or_load_vectorstore call
MaxPad    == 1      \* blanks around an input line

\* -------------------------------------------------------------- literals
NOT_FOUND    == "Nao encontrei essa informacao nas normas disponiveis."
ERROR_REPLY  == "Ocorreu um erro ao processar sua pergunta. Por favor, tente novamente."
FONTE        == "(Fonte: "
DESCONHECIDA == "desconhecida"
ORIGEM       == "Origem nao identificada nos metadados"
PDF          == ".pdf"
SAIR         == <<"s", "a", "i", "r">>

MSG_NO_DOCS  == "Erro: Verifique se a pasta 'docs' existe e contem arquivos PDF validos."
MSG_SPLIT    == "Erro: Falha ao processar os documentos. Verifique os arquivos PDF."
MSG_EMB      == "Erro: Falha ao conectar com o servico de embeddings. Verifique sua chave de API ou modelo local."
MSG_VALUE    == "Erro: Nao e possivel criar um vector store sem documentos."
MSG_VS       == "Erro: Falha ao criar ou carregar o banco de dados vetorial."
MSG_LLM      == "Erro: Falha ao conectar com a API da OpenAI. Verifique sua chave."
MSG_BANNER   == "Digite sua pergunta sobre as normas carregadas. Digite 'sair' para terminar."
MSG_BYE      == "Encerrando o assistente. Ate logo!"
MSG_EMPTY    == "Por favor, digite uma pergunta."
MSG_ANSWER   == "Assistente: "

\* ------------------------------------------------------- text operations
Whitespace == {" ", "\n"}

\* str.strip(): leading and trailing whitespace removed.
RECURSIVE LStrip(_)
LStrip(s) == IF s # <<>> /\ Head(s) \in Whitespace THEN LStrip(Tail(s)) ELSE s

RECURSIVE RStrip(_)
RStrip(s) ==
  IF s # <<>> /\ s[Len(s)] \in Whitespace THEN RStrip(SubSeq(s, 1, Len(s) - 1)) ELSE s

Strip(s) == RStrip(LStrip(s))

\* str.lower() on the letters of the input alphabet.
LowerChar(c) ==
  CASE c = "S" -> "s" [] c = "A" -> "a" [] c = "I" -> "i" [] c = "R" -> "r"
    [] OTHER -> c

Lower(s) == [i \in 1..Len(s) |-> LowerChar(s[i])]

\* `sub in s`
Contains(s, sub) ==
  \E i \in 0..(Len(s) - Len(sub)) : SubSeq(s, i + 1, i + Len(sub)) = sub

\* os.path.basename: what follows the last "/".
Basename(p) ==
  LET slashes == {i \in 1..Len(p) : p[i] = "/"}
  IN  IF slashes = {} THEN p
      ELSE LET last == CHOOSE i \in slashes : \A j \in slashes : j <= i
           IN  SubSeq(p, last + 1, Len(p))

\* Code point of a token's first character (tokens of file names).
Ord(c) ==
  CASE c = "(" -> 40 [] c = ")" -> 41 [] c = PDF -> 46 [] c = "1" -> 49
    [] c = "a" -> 97 [] c = "b" -> 98 [] c = "c" -> 99 [] c = DESCONHECIDA -> 100
    [] c = "n" -> 110 [] OTHER -> 120

\* Python's order on str: lexicographic by code point.
RECURSIVE StrLess(_, _)
StrLess(a, b) ==
  IF b = <<>> THEN FALSE
  ELSE IF a = <<>> THEN TRUE
  ELSE IF Head(a) = Head(b) THEN StrLess(Tail(a), Tail(b))
  ELSE Ord(Head(a)) < Ord(Head(b))

\* sorted(list(sources))
RECURSIVE Sorted(_)
Sorted(S) ==
  IF S = {} THEN <<>>
  ELSE LET m == CHOOSE x \in S : \A y \in S \ {x} : StrLess(x, y)
       IN  <<m>> \o Sorted(S \ {m})

\* ", ".join(names)
RECURSIVE Join(_)
Join(names) ==
  IF names = <<>> THEN <<>>
  ELSE IF Len(names) = 1 THEN names[1]
  ELSE names[1] \o <<",", " ">> \o Join(Tail(names))

\* f"(Fonte: {source_citation})"
Citation(source_citation) == <<FONTE>> \o source_citation \o <<")">>

\* re.sub(r"\s*\(Fonte: [^\)]+\)\s*$", "", answer): the leftmost place from
\* which blanks, the opener, one or more tokens other than ")", a ")" and
\* blanks run to the end of the text is where the text is cut.
MatchesTrailingCitation(s, i) ==
  \E j \in i..Len(s) :
    /\ \A k \in i..(j - 1) : s[k] \in Whitespace
    /\ s[j] = FONTE
    /\ \E c \in (j + 2)..Len(s) :
         /\ s[c] = ")"
         /\ \A k \in (j + 1)..(c - 1) : s[k] # ")"
         /\ \A k \in (c + 1)..Len(s) : s[k] \in Whitespace

RemoveTrailingCitation(s) ==
  LET starts == {i \in 1..Len(s) : MatchesTrailingCitation(s, i)}
  IN  IF starts = {} THEN s
      ELSE LET first == CHOOSE i \in starts : \A j \in starts : i <= j
           IN  SubSeq(s, 1, first - 1)

\* ------------------------------------------------------------ ask_question
\* A retrieved chunk: its metadata may or may not carry 'source'.
\* doc.metadata.get('source', 'desconhecida')
SourceName(doc) == IF doc.hasSource THEN doc.source ELSE <<DESCONHECIDA>>

\* sources: the set of os.path.basename(source_name) over source_docs.
Sources(source_docs) ==
  {Basename(SourceName(source_docs[i])) : i \in 1..Len(source_docs)}

\* The formatting of a found answer with its sources.
FormatAnswerPlaceholder(answer, source_docs) ==
  IF source_docs # <<>>
  THEN answer \o <<"\n">> \o Citation(Join(Sorted(Sources(source_docs))))
  ELSE answer \o <<"\n">> \o Citation(<<ORIGEM>>)

FormatAnswer(answer, source_docs) ==
  IF source_docs # <<>>
  THEN LET sources == Sources(source_docs)
       IN  IF sources # {}
           THEN LET source_citation == Join(Sorted(sources))
                IN  IF ~Contains(answer, Citation(source_citation))
                    THEN answer \o <<"\n">> \o Citation(source_citation)
                    ELSE Strip(RemoveTrailingCitation(answer))
                           \o <<"\n">> \o Citation(source_citation)
           ELSE answer \o <<"\n">> \o Citation(<<ORIGEM>>)
  ELSE answer

\* The try block: chain.invoke, then the post-processing of its result.
\* exc: an exception leaves the block.
AskBodyNoSentinel(out) ==
  IF out.raises THEN [exc |-> TRUE, value |-> <<>>]
  ELSE [exc |-> FALSE,
        value |-> FormatAnswer(Strip(out.result), out.source_documents)]

AskBody(out) ==
  IF out.raises THEN [exc |-> TRUE, value |-> <<>>]
  ELSE LET answer == Strip(out.result)
       IN  IF answer = <<NOT_FOUND>>
           THEN [exc |-> FALSE, value |-> answer]
           ELSE [exc |-> FALSE,
                 value |-> FormatAnswer(answer, out.source_documents)]

\* ask_question: the try block under `except Exception`.
AskQuestionNoExcept(out) == AskBody(out)

AskQuestion(out) ==
  LET r == AskBody(out)
  IN  IF r.exc THEN [exc |-> FALSE, value |-> <<ERROR_REPLY>>] ELSE r

\* ------------------------------------------------------------------ inputs
\* File names and paths.
NameA  == <<"a", PDF>>
NameA1 == <<"a", "(", "1", ")", PDF>>
NameB  == <<"b", PDF>>
NameC  == <<"c", PDF>>
NameN  == <<"n">>

InDocs(name) == <<"docs", "/">> \o name

\* What chain.invoke may hand back as source documents.
SourceDocValues ==
  {[hasSource |-> TRUE, source |-> InDocs(NameA)],
   [hasSource |-> TRUE, source |-> <<"old", "/">> \o NameA],
   [hasSource |-> TRUE, source |-> InDocs(NameB)],
   [hasSource |-> TRUE, source |-> InDocs(NameA1)],
   [hasSource |-> FALSE, source |-> <<>>]}

RECURSIVE SeqsUpTo(_, _)
SeqsUpTo(S, n) ==
  IF n = 0 THEN {<<>>}
  ELSE LET shorter == SeqsUpTo(S, n - 1)
       IN  shorter \cup {Append(s, x) : s \in shorter, x \in S}

SourceDocLists == SeqsUpTo(SourceDocValues, MaxDocs)

\* The LLM's text is a concatenation of pieces: plain text, blanks, the
\* "not found" sentence, and citations as the prompt asks for them.
AnswerPieces ==
  {<<"x">>, <<" ">>, <<NOT_FOUND>>,
   Citation(NameA), Citation(NameB), Citation(NameA \o <<",", " ">> \o NameB),
   Citation(NameA1),
   Citation(NameA \o <<" ", "/", " ", "x">>)}

RECURSIVE Flatten(_)
Flatten(ps) == IF ps = <<>> THEN <<>> ELSE Head(ps) \o Flatten(Tail(ps))

Answers == {Flatten(ps) : ps \in SeqsUpTo(AnswerPieces, MaxPieces)}

ChainOutcomes ==
  {[raises |-> TRUE, result |-> <<>>, source_documents |-> <<>>]}
    \cup {[raises |-> FALSE, result |-> a, source_documents |-> d] :
            a \in Answers, d \in SourceDocLists}

\* The outcomes a query of the interactive loop draws from.
LoopOutcomes ==
  {[raises |-> TRUE, result |-> <<>>, source_documents |-> <<>>],
   [raises |-> FALSE, result |-> <<NOT_FOUND>>,
    source_documents |-> <<[hasSource |-> TRUE, source |-> InDocs(NameA)]>>],
   [raises |-> FALSE, result |-> <<"x">>,
    source_documents |-> <<[hasSource |-> TRUE, source |-> InDocs(NameA)]>>],
   [raises |-> FALSE, result |-> <<"x">>, source_documents |-> <<>>]}

\* Input lines: a word with blanks around it.
RECURSIVE Blanks(_)
Blanks(n) == IF n = 0 THEN <<>> ELSE <<" ">> \o Blanks(n - 1)

SairSpellings ==
  {<<"s", "a", "i", "r">>, <<"S", "A", "I", "R">>, <<"s", "a", "I", "r">>}

Words ==
  SairSpellings \cup {<<>>, <<"x">>, <<"s", "a", "i", "r", "x">>,
                      <<"s", "a", " ", "i", "r">>}

Lines == {Blanks(l) \o w \o Blanks(r) : l \in 0..MaxPad, r \in 0..MaxPad, w \in Words}

\* -------------------------------------------------------------- file system
\* A file of the documents directory: a PDF with text, a PDF whose pages
\* carry no text, a PDF the parser rejects, or a file that is no PDF.
FilePool ==
  {[name |-> NameA,  kind |-> "text"],
   [name |-> NameB,  kind |-> "blank"],
   [name |-> NameC,  kind |-> "corrupt"],
   [name |-> NameN,  kind |-> "other"]}

Directories == {d \in SUBSET FilePool : Cardinality(d) <= MaxFiles}

Chunk(name) == [hasSource |-> TRUE, source |-> InDocs(name)]

\* The persisted index at VECTORSTORE_PATH: absent, loadable, or present
\* but rejected by FAISS.load_local.
NoStore      == [state |-> "absent",  content |-> <<>>]
OldStore     == [state |-> "good",    content |-> <<Chunk(NameB)>>]
CorruptStore == [state |-> "corrupt", content |-> <<>>]

NoIndex == [set |-> FALSE, content |-> <<>>]

ChunkLists == SeqsUpTo({Chunk(NameA), Chunk(NameA1)}, MaxChunks)

BuildOutcomes == {"ok", "from_documents_raises", "save_local_raises"}

\* ---------------------------------------------------------- load_documents
RECURSIVE DocumentsOf(_)
DocumentsOf(pdfs) ==
  IF pdfs = {} THEN <<>>
  ELSE LET f == CHOOSE x \in pdfs : \A y \in pdfs \ {x} : StrLess(x.name, y.name)
       IN  <<[hasSource |-> TRUE, source |-> InDocs(f.name), blank |-> f.kind = "blank"]>>
             \o DocumentsOf(pdfs \ {f})

LoadDocumentsAnyFile(exists, files) ==
  IF ~exists THEN <<>>
  ELSE IF files = {} THEN <<>>
  ELSE IF \E f \in files : f.kind = "corrupt"
       THEN <<>>
       ELSE DocumentsOf(files)

\* DirectoryLoader(directory_path, glob="*.pdf", loader_cls=PyPDFLoader)
LoadDocuments(exists, files) ==
  IF ~exists THEN <<>>
  ELSE IF files = {} THEN <<>>
  ELSE LET pdfs == {f \in files : f.kind # "other"}
       IN  IF \E f \in pdfs : f.kind = "corrupt"
           THEN <<>>                       \* loader.load() raises: except, return []
           ELSE DocumentsOf(pdfs)

\* --------------------------------------------------------- split_documents
RECURSIVE ChunksOf(_)
ChunksOf(documents) ==
  IF documents = <<>> THEN <<>>
  ELSE (IF Head(documents).blank THEN <<>>
        ELSE <<[hasSource |-> TRUE, source |-> Head(documents).source]>>)
         \o ChunksOf(Tail(documents))

SplitDocuments(documents) ==
  IF documents = <<>> THEN <<>> ELSE ChunksOf(documents)

\* ----------------------------------------------- create_or_load_vectorstore
\* The second half: build a new index from split_docs and save it.
BuildNewAllowEmpty(split_docs, st, build) ==
  IF build = "ok"
  THEN [exc |-> "none", vs |-> [set |-> TRUE, content |-> split_docs],
        store |-> [state |-> "good", content |-> split_docs]]
  ELSE IF build = "from_documents_raises"
  THEN [exc |-> "Exception", vs |-> NoIndex, store |-> st]
  ELSE [exc |-> "Exception", vs |-> NoIndex, store |-> CorruptStore]

BuildNew(split_docs, st, build) ==
  IF split_docs = <<>>
  THEN [exc |-> "ValueError", vs |-> NoIndex, store |-> st]
  ELSE IF build = "ok"
  THEN [exc |-> "none", vs |-> [set |-> TRUE, content |-> split_docs],
        store |-> [state |-> "good", content |-> split_docs]]
  ELSE IF build = "from_documents_raises"
  THEN [exc |-> "Exception", vs |-> NoIndex, store |-> st]
  ELSE [exc |-> "Exception", vs |-> NoIndex, store |-> CorruptStore]

\* The whole function, on the store it finds; build: how from_documents and
\* save_local end if they are reached.
CreateOrLoadNoRecovery(split_docs, st, build) ==
  IF st.state = "good"
  THEN [exc |-> "none", vs |-> [set |-> TRUE, content |-> st.content], store |-> st]
  ELSE IF st.state = "corrupt"
  THEN [exc |-> "Exception", vs |-> NoIndex, store |-> st]
  ELSE BuildNew(split_docs, st, build)

CreateOrLoad(split_docs, st, build) ==
  IF st.state = "good"
  THEN [exc |-> "none", vs |-> [set |-> TRUE, content |-> st.content], store |-> st]
  ELSE IF st.state = "corrupt"
  THEN BuildNew(split_docs, NoStore, build)       \* except: shutil.rmtree(store_path)
  ELSE BuildNew(split_docs, st, build)

\* ------------------------------------------------------------ the loop's tests
IsExitCaseSensitive(q) == Strip(q) = SAIR

\* query.lower().strip() == 'sair'
IsExit(q) == Strip(Lower(q)) = SAIR

\* not query.strip()
IsBlank(q) == Strip(q) = <<>>

\* ------------------------------------------------------------------- state
VARIABLES
  entry,          \* the function that was called: main, or one function alone
  pc,             \* where that call stands
  dirExists,      \* os.path.isdir(DOCS_PATH)
  dirFiles,       \* the files of DOCS_PATH
  store,          \* the persisted index at VECTORSTORE_PATH
  storeDirExists, \* os.path.exists(os.path.dirname(VECTORSTORE_PATH))
  documents,      \* main's documents
  split_docs,     \* main's split_docs
  vsCall,         \* the call of create_or_load_vectorstore: arguments and end
  vectorstore,    \* the index the call returned
  steps,          \* the startup steps main has begun
  printed,        \* the last line printed
  query,          \* the last input line
  asked,          \* calls of ask_question for the last input line
  chainOut,       \* what chain.invoke did for the last input line or call
  response        \* what ask_question returned

vars == <<entry, pc, dirExists, dirFiles, store, storeDirExists, documents,
          split_docs, vsCall, vectorstore, steps, printed, query, asked,
          chainOut, response>>

NoCall == [made |-> FALSE, split_docs |-> <<>>, before |-> NoStore,
           build |-> "ok", exc |-> "none"]
NoChain == [raises |-> FALSE, result |-> <<>>, source_documents |-> <<>>]

InitProcess ==
  /\ documents = <<>> /\ split_docs = <<>>
  /\ vsCall = NoCall /\ vectorstore = NoIndex
  /\ steps = {} /\ printed = ""
  /\ query = <<>> /\ asked = 0 /\ chainOut = NoChain /\ response = <<>>

InitStore ==
  \/ store = NoStore /\ storeDirExists \in BOOLEAN
  \/ store \in {OldStore, CorruptStore} /\ storeDirExists = TRUE

\* python assistant.py
InitMain ==
  /\ entry = "main" /\ pc = "load"
  /\ dirExists \in BOOLEAN
  /\ dirFiles \in Directories
  /\ (~dirExists => dirFiles = {})
  /\ InitStore
  /\ InitProcess

\* ask_question(chain, query) called on its own
InitAsk ==
  /\ entry = "ask_question" /\ pc = "call"
  /\ dirExists = FALSE /\ dirFiles = {}
  /\ store = NoStore /\ storeDirExists = FALSE
  /\ InitProcess

\* create_or_load_vectorstore(split_docs, embeddings, store_path) called on its own
InitCreateOrLoad ==
  /\ entry = "create_or_load_vectorstore" /\ pc = "call"
  /\ dirExists = FALSE /\ dirFiles = {}
  /\ InitStore
  /\ InitProcess

Init == InitMain \/ InitAsk \/ InitCreateOrLoad

\* -------------------------------------------------------------------- main
\* 1. documents = load_documents(DOCS_PATH); no documents: diagnostic, return.
MainLoadDocuments ==
  /\ entry = "main" /\ pc = "load"
  /\ LET docs == LoadDocuments(dirExists, dirFiles)
     IN  /\ documents' = docs
         /\ IF docs = <<>>
            THEN printed' = MSG_NO_DOCS /\ pc' = "aborted"
            ELSE printed' = printed /\ pc' = "split"
  /\ UNCHANGED <<entry, dirExists, dirFiles, store, storeDirExists, split_docs,
                 vsCall, vectorstore, steps, query, asked, chainOut, response>>

\* 2. split_docs = split_documents(...); none and no persisted index: return.
MainSplitDocuments ==
  /\ entry = "main" /\ pc = "split"
  /\ LET chunks == SplitDocuments(documents)
     IN  /\ split_docs' = chunks
         /\ IF chunks = <<>> /\ store.state # "absent"
            THEN printed' = printed /\ pc' = "embeddings"
            ELSE IF chunks = <<>>
            THEN printed' = MSG_SPLIT /\ pc' = "aborted"
            ELSE printed' = printed /\ pc' = "embeddings"
  /\ UNCHANGED <<entry, dirExists, dirFiles, store, storeDirExists, documents,
                 vsCall, vectorstore, steps, query, asked, chainOut, response>>

\* 3. embeddings = initialize_embeddings(), which may raise.
MainInitEmbeddings ==
  /\ entry = "main" /\ pc = "embeddings"
  /\ steps' = steps \cup {"embeddings"}
  /\ \E ok \in BOOLEAN :
       IF ok THEN printed' = printed /\ pc' = "vectorstore"
             ELSE printed' = MSG_EMB /\ pc' = "aborted"
  /\ UNCHANGED <<entry, dirExists, dirFiles, store, storeDirExists, documents,
                 split_docs, vsCall, vectorstore, query, asked, chainOut, response>>

\* 4. vectorstore = create_or_load_vectorstore(
\*        split_docs if not os.path.exists(VECTORSTORE_PATH) else [], ...)
MainVectorstore ==
  /\ entry = "main" /\ pc = "vectorstore"
  /\ steps' = steps \cup {"vectorstore"}
  /\ \E build \in BuildOutcomes :
       LET arg == IF store.state = "absent" THEN split_docs ELSE <<>>
           r   == CreateOrLoad(arg, store, build)
       IN  /\ vsCall' = [made |-> TRUE, split_docs |-> arg, before |-> store,
                         build |-> build, exc |-> r.exc]
           /\ store' = r.store
           /\ storeDirExists' = TRUE
           /\ vectorstore' = r.vs
           /\ IF r.exc = "ValueError"
              THEN printed' = MSG_VALUE /\ pc' = "aborted"
              ELSE IF r.exc = "Exception"
              THEN printed' = MSG_VS /\ pc' = "aborted"
              ELSE printed' = printed /\ pc' = "llm"
  /\ UNCHANGED <<entry, dirExists, dirFiles, documents, split_docs, query,
                 asked, chainOut, response>>

\* 5. llm = initialize_llm(), which may raise.
MainInitLLM ==
  /\ entry = "main" /\ pc = "llm"
  /\ steps' = steps \cup {"llm"}
  /\ \E ok \in BOOLEAN :
       IF ok THEN printed' = printed /\ pc' = "chain"
             ELSE printed' = MSG_LLM /\ pc' = "aborted"
  /\ UNCHANGED <<entry, dirExists, dirFiles, store, storeDirExists, documents,
                 split_docs, vsCall, vectorstore, query, asked, chainOut, response>>

\* 6. qa_chain = setup_qa_chain(llm, vectorstore); the banner.
MainSetupChain ==
  /\ entry = "main" /\ pc = "chain"
  /\ steps' = steps \cup {"chain"}
  /\ printed' = MSG_BANNER
  /\ pc' = "input"
  /\ UNCHANGED <<entry, dirExists, dirFiles, store, storeDirExists, documents,
                 split_docs, vsCall, vectorstore, query, asked, chainOut, response>>

\* 7. One turn of `while True`: query = input(...), then one of three ends.
LoopExit ==
  /\ entry = "main" /\ pc = "input"
  /\ \E line \in Lines :
       /\ IsExit(line)
       /\ query' = line
  /\ asked' = 0
  /\ chainOut' = NoChain
  /\ printed' = MSG_BYE
  /\ pc' = "done"
  /\ UNCHANGED <<entry, dirExists, dirFiles, store, storeDirExists, documents,
                 split_docs, vsCall, vectorstore, steps, response>>

LoopEmpty ==
  /\ entry = "main" /\ pc = "input"
  /\ \E line \in Lines :
       /\ ~IsExit(line)
       /\ IsBlank(line)
       /\ query' = line
  /\ asked' = 0
  /\ chainOut' = NoChain
  /\ printed' = MSG_EMPTY
  /\ pc' = "input"
  /\ UNCHANGED <<entry, dirExists, dirFiles, store, storeDirExists, documents,
                 split_docs, vsCall, vectorstore, steps, response>>

LoopAsk ==
  /\ entry = "main" /\ pc = "input"
  /\ \E line \in Lines :
       /\ ~IsExit(line)
       /\ ~IsBlank(line)
       /\ query' = line
  /\ asked' = 1
  /\ steps' = steps \cup {"query"}
  /\ \E out \in LoopOutcomes :
       LET r == AskQuestion(out)
       IN  /\ chainOut' = out
           /\ IF r.exc
              THEN response' = response /\ printed' = printed /\ pc' = "crashed"
              ELSE response' = r.value /\ printed' = MSG_ANSWER /\ pc' = "input"
  /\ UNCHANGED <<entry, dirExists, dirFiles, store, storeDirExists, documents,
                 split_docs, vsCall, vectorstore>>

\* ------------------------------------------------- the functions on their own
CallAskQuestion ==
  /\ entry = "ask_question" /\ pc = "call"
  /\ asked' = 1
  /\ \E out \in ChainOutcomes :
       LET r == AskQuestion(out)
       IN  /\ chainOut' = out
           /\ IF r.exc
              THEN response' = response /\ pc' = "raised"
              ELSE response' = r.value /\ pc' = "returned"
  /\ UNCHANGED <<entry, dirExists, dirFiles, store, storeDirExists, documents,
                 split_docs, vsCall, vectorstore, steps, printed, query>>

CallCreateOrLoad ==
  /\ entry = "create_or_load_vectorstore" /\ pc = "call"
  /\ \E arg \in ChunkLists, build \in BuildOutcomes :
       LET r == CreateOrLoad(arg, store, build)
       IN  /\ vsCall' = [made |-> TRUE, split_docs |-> arg, before |-> store,
                         build |-> build, exc |-> r.exc]
           /\ store' = r.store
           /\ storeDirExists' = TRUE
           /\ vectorstore' = r.vs
           /\ pc' = IF r.exc = "none" THEN "returned" ELSE "raised"
  /\ UNCHANGED <<entry, dirExists, dirFiles, documents, split_docs, steps,
                 printed, query, asked, chainOut, response>>

Next ==
  \/ MainLoadDocuments
  \/ MainSplitDocuments
  \/ MainInitEmbeddings
  \/ MainVectorstore
  \/ MainInitLLM
  \/ MainSetupChain
  \/ LoopExit
  \/ LoopEmpty
  \/ LoopAsk
  \/ CallAskQuestion
  \/ CallCreateOrLoad

Spec == Init /\ [][Next]_vars

\* ------------------------------------------------------------- properties
\* Shorthands for the last call of ask_question.
Answered   == asked = 1 /\ ~chainOut.raises
RawAnswer  == Strip(chainOut.result)
Retrieved  == chainOut.source_documents
Found      == Answered /\ RawAnswer # <<NOT_FOUND>>
Resumed    == pc \in {"input", "returned"}

EndsWith(s, suffix) ==
  Len(s) >= Len(suffix) /\ SubSeq(s, Len(s) - Len(suffix) + 1, Len(s)) = suffix

Count(s, c) == Cardinality({i \in 1..Len(s) : s[i] = c})

\* s ends with a citation: "(Fonte: ", some text, ")", the text's own
\* parentheses (those of a file name) balanced.
EndsWithCitation(s) ==
  /\ s # <<>>
  /\ s[Len(s)] = ")"
  /\ \E j \in 1..(Len(s) - 2) :
       /\ s[j] = FONTE
       /\ \A k \in (j + 1)..Len(s) : s[k] # FONTE
       /\ LET inner == SubSeq(s, j + 1, Len(s) - 1)
          IN  Count(inner, "(") = Count(inner, ")")

CanonicalCitation(docs) == Citation(Join(Sorted(Sources(docs))))

AllHaveSource(docs) == \A i \in 1..Len(docs) : docs[i].hasSource
NoneHasSource(docs) == \A i \in 1..Len(docs) : ~docs[i].hasSource

\* C1: an exception of chain.invoke (retrieval or the LLM call) never leaves
\* ask_question: the fixed error reply is returned, and in main's loop the
\* reply is printed and the next prompt follows.
C1_ExceptionBecomesErrorReply ==
  (asked = 1 /\ chainOut.raises) =>
    /\ response = <<ERROR_REPLY>>
    /\ Resumed
    /\ (entry = "main" => pc = "input" /\ printed = MSG_ANSWER)

C1_Witness ==
  entry = "main" /\ asked = 1 /\ chainOut.raises /\ pc = "input"

\* C2: when the LLM's raw answer is exactly the "not found" sentence,
\* ask_question returns that sentence alone, whatever was retrieved.
C2_SentinelUnchanged ==
  (Answered /\ chainOut.result = <<NOT_FOUND>>) =>
    (Resumed /\ response = <<NOT_FOUND>>)

C2_Witness ==
  /\ Answered /\ chainOut.result = <<NOT_FOUND>> /\ Retrieved # <<>>
  /\ pc = "returned"

\* C3: a found answer with retrieved chunks comes back as the answer, a
\* newline and the canonical citation; a citation the answer already ended
\* with is gone, so the canonical one is the only trailing citation.
C3_CanonicalCitationOnly ==
  (Found /\ Retrieved # <<>> /\ AllHaveSource(Retrieved)) =>
    LET tail == <<"\n">> \o CanonicalCitation(Retrieved)
        body == SubSeq(response, 1, Len(response) - Len(tail))
    IN  /\ EndsWith(response, tail)
        /\ ~EndsWithCitation(RStrip(body))
        /\ (~EndsWithCitation(RawAnswer) => body = RawAnswer)

\* C4: with the retrieved chunks fixed, ask_question applied to its own
\* output returns that output.
C4_CitationIdempotent ==
  (Found /\ Retrieved # <<>>) =>
    AskQuestion([raises |-> FALSE, result |-> response,
                 source_documents |-> Retrieved]).value = response

Rebuilt ==
  /\ vsCall.exc = "none"
  /\ store = [state |-> "good", content |-> vsCall.split_docs]
  /\ vectorstore = [set |-> TRUE, content |-> vsCall.split_docs]

LoadedAsIs ==
  /\ vsCall.exc = "none"
  /\ store = vsCall.before
  /\ vectorstore = [set |-> TRUE, content |-> vsCall.before.content]

\* C6 as claimed: called with chunks, a persisted index that fails to load is
\* deleted, rebuilt from the chunks, saved and returned without raising; one
\* that loads is returned as it is and nothing is written.
C6_RebuildNeverRaises ==
  vsCall.made =>
    /\ (vsCall.split_docs # <<>> /\ vsCall.before.state = "corrupt" => Rebuilt)
    /\ (vsCall.before.state = "good" => LoadedAsIs)

\* C6 amended: the same provided FAISS.from_documents and save_local succeed;
\* when one of them raises, the exception leaves the function and no index is
\* returned.
C6_RebuildWhenBuildSucceeds ==
  vsCall.made =>
    /\ (vsCall.split_docs # <<>> /\ vsCall.before.state = "corrupt" =>
          IF vsCall.build = "ok" THEN Rebuilt
          ELSE /\ vsCall.exc = "Exception"
               /\ vectorstore = NoIndex)
    /\ (vsCall.before.state = "good" => LoadedAsIs)

C6_Witness ==
  /\ entry = "create_or_load_vectorstore" /\ pc = "returned"
  /\ vsCall.made /\ vsCall.before.state = "corrupt"
  /\ vsCall.split_docs # <<>> /\ Rebuilt

\* C7: startup with a non-empty chunk set stops only when the embedding
\* client, the index build or the LLM client fails; with a corrupt persisted
\* index it still reaches the query loop.
C7_StartupSurvivesCorruptIndex ==
  (entry = "main" /\ pc = "aborted" /\ split_docs # <<>>) =>
    printed \in {MSG_EMB, MSG_VS, MSG_LLM}

\* C8: with no usable persisted index and no chunks,
\* create_or_load_vectorstore raises ValueError, returns no index and leaves no
\* index at store_path; main prints the error and returns before the loop.
C8_EmptyIndexRefused ==
  (vsCall.made /\ vsCall.split_docs = <<>> /\ vsCall.before.state # "good") =>
    /\ vsCall.exc = "ValueError"
    /\ vectorstore = NoIndex
    /\ store = NoStore
    /\ (entry = "main" =>
          /\ pc = "aborted" /\ printed = MSG_VALUE
          /\ steps \cap {"llm", "chain", "query"} = {})
    /\ (entry # "main" => pc = "raised")

C8_Witness ==
  /\ entry = "main" /\ pc = "aborted" /\ printed = MSG_VALUE
  /\ vsCall.made /\ vsCall.before.state = "corrupt"

\* The documents directory is missing, empty or holds no PDF.
NoPdfToLoad ==
  ~dirExists \/ dirFiles = {} \/ \A f \in dirFiles : f.kind = "other"

\* C9: with the documents directory missing, empty or without a PDF,
\* load_documents returns no document and main stops with the "check the
\* directory" diagnostic before embeddings, index, LLM or any query, a
\* persisted index notwithstanding.
C9_NoDocumentsAborts ==
  (entry = "main" /\ pc # "load" /\ NoPdfToLoad) =>
    /\ documents = <<>>
    /\ pc = "aborted" /\ printed = MSG_NO_DOCS
    /\ steps = {} /\ ~vsCall.made /\ vectorstore = NoIndex /\ asked = 0
    /\ store \in {NoStore, OldStore, CorruptStore}

C9_Witness ==
  /\ entry = "main" /\ pc = "aborted" /\ printed = MSG_NO_DOCS
  /\ dirExists /\ dirFiles # {} /\ NoPdfToLoad
  /\ store = OldStore

\* The exit word in any letter case, with blanks around it.
IsSentinelLine(q) ==
  \E i \in 1..(Len(q) - 3) :
    /\ q[i] \in {"s", "S"} /\ q[i + 1] \in {"a", "A"}
    /\ q[i + 2] \in {"i", "I"} /\ q[i + 3] \in {"r", "R"}
    /\ \A k \in 1..Len(q) : (k < i \/ k > i + 3) => q[k] = " "

AllBlank(q) == \A i \in 1..Len(q) : q[i] = " "

\* What one turn of the loop does with the line it reads.
LoopStep ==
  (entry = "main" /\ pc = "input") =>
    LET exit  == IsSentinelLine(query')
        blank == AllBlank(query')
    IN  /\ (exit => pc' = "done" /\ printed' = MSG_BYE /\ asked' = 0)
        /\ (blank => pc' = "input" /\ printed' = MSG_EMPTY /\ asked' = 0)
        /\ (~exit /\ ~blank =>
              /\ pc' = "input" /\ asked' = 1 /\ printed' = MSG_ANSWER
              /\ response' = AskQuestion(chainOut').value)

\* C10: each input line has exactly one end: the exit word (any letter case,
\* blanks around it) prints the farewell and ends the loop without
\* ask_question; a blank line re-prompts without ask_question; any other line
\* calls ask_question once, prints its reply and re-prompts.  Only the exit
\* word ends the loop.
C10_LoopDispatch == [][LoopStep]_vars

C10_Witness ==
  entry = "main" /\ pc = "done" /\ query = <<" ", "S", "A", "I", "R", " ">>

====
